---- MODULE Spec2Model ----
(***************************************************************************)
(* Realtime gateway: the topic subscription registry (nats.Manager), the   *)
(* connection hub (websocket.Hub), the per-connection pumps and the        *)
(* bus -> clients forwarding callback (DocumentHandler).                   *)
(***************************************************************************)
EXTENDS Integers, Sequences, FiniteSets, TLC

(* ------------------------------------------------------------------ *)
(* Universe of the model                                               *)
(* ------------------------------------------------------------------ *)

\* Document IDs (topics) the callers use.
Topics == {"d1", "d2"}

\* Goroutines calling Manager.Subscribe / Manager.Unsubscribe directly.
Callers == {"p1", "p2"}

\* Total number of registry calls the callers make.
MaxCalls == 4

NoOne == "none"

\* Connection objects, in the order HandleWebSocket allocates them.
MaxConns == 2
Conns == 1..MaxConns

\* Client IDs the authentication layer hands over.
ClientIDs == {"a", "b"}

\* make(chan DocumentMessage, 256), scaled down.
SendCap == 2

\* Inbound client messages read by all read loops together.
MaxInbound == 1

\* Messages put on Hub.broadcast.
MaxGlobal == 3

\* Messages other publishers put on the bus.
MaxBus == 3

\* Inbound client messages read where the order of publishing is looked at.
MaxOrdered == 2

VARIABLES
    subscriptions,  \* Manager.subscriptions: documentID -> [count, subscription]
    mutex,          \* Manager.mutex: the caller holding it, or NoOne
    busSubs,        \* subject -> number of live subscriptions on the NATS connection
    rpc,            \* caller -> position inside Subscribe / Unsubscribe
    rarg,           \* caller -> documentID argument of the call in progress
    rsub,           \* caller -> subject of the handle conn.Subscribe returned
    rerr,           \* caller -> TRUE iff its last call returned a non-nil error
    ncalls,         \* number of registry calls invoked so far
    hist,           \* documentID -> calls (in lock order) and backend calls made
    overlap         \* documentID -> a call was invoked while another was running

regVars == <<subscriptions, mutex, busSubs, rpc, rarg, rsub, rerr, ncalls, hist, overlap>>

VARIABLES
    pc,           \* conn -> position in HandleWebSocket / readPump
    wp,           \* conn -> position of writePump
    clientID,     \* conn -> Connection.clientID
    docID,        \* conn -> Connection.metadata[MetaDocumentIDKey]
    connections,  \* Hub.connections: clientID -> conn
    hubOp,        \* the request Hub.Run has received and not yet carried out
    send,         \* conn -> contents of the buffered channel Connection.send
    closed,       \* conn -> close(conn.send) has happened
    tclosed,      \* conn -> c.conn.Close() has happened
    written,      \* conn -> frames written to the transport, in order
    enq,          \* conn -> every message ever enqueued on Connection.send
    pubs,         \* events whose publishing goroutine has not run yet
    busQ,         \* documentID -> bus messages pending for its subscription callback
    cb,           \* documentID -> the running forwarding callback, if any
    crashed,      \* "" or the panic that ended the process
    nin,          \* inbound client messages read so far
    nglobal,      \* global broadcasts so far
    nbus          \* messages other publishers have put on the bus so far

connVars == <<pc, wp, clientID, docID, send, closed, tclosed, written, enq>>
hubVars == <<connections, hubOp>>
busVars == <<pubs, busQ, cb>>
ctlVars == <<crashed, nin, nglobal, nbus>>
sysVars == <<connVars, hubVars, busVars, ctlVars>>

\* Everything a fatal error leaves as it was.
survivors == <<regVars, connVars, hubVars, busVars, nin, nglobal, nbus>>

VARIABLE
    wire          \* the bus by subject: documents subscribed; the document, subject and
                  \* receiving subscriptions of the event published last, after them

vars == <<regVars, sysVars, wire>>

(* ------------------------------------------------------------------ *)
(* nats.Manager: Subscribe / Unsubscribe                               *)
(* ------------------------------------------------------------------ *)

\* A document ID is whatever the request path holds; the bus splits subjects at ".".
DocTokens(documentID) == IF documentID = "d1.x" THEN <<"d1", "x">> ELSE <<documentID>>

\* fmt.Sprintf("document.%s.edit", documentID), as the tokens the bus sees
SubjectOf(documentID) == <<"document">> \o DocTokens(documentID) \o <<"edit">>

Subjects == {SubjectOf(t) : t \in Topics}

Exists_Always(subs, documentID) == TRUE

\* _, exists := m.subscriptions[documentID]
Exists(subs, documentID) == documentID \in DOMAIN subs

\* Mutant: a new entry starts with connectionCount 1.
StoreEntry_CountOne(subs, documentID, sub) ==
    [t \in DOMAIN subs \cup {documentID} |->
        IF t = documentID THEN [connectionCount |-> 1, subscription |-> sub]
        ELSE subs[t]]

\* m.subscriptions[documentID] = &DocumentSubscription{..., connectionCount: 0}
StoreEntry(subs, documentID, sub) ==
    [t \in DOMAIN subs \cup {documentID} |->
        IF t = documentID THEN [connectionCount |-> 0, subscription |-> sub]
        ELSE subs[t]]

\* docSub.connectionCount++
IncrCount(subs, documentID) ==
    [subs EXCEPT ![documentID].connectionCount = @ + 1]

\* docSub.connectionCount--
DecrCount(subs, documentID) ==
    [subs EXCEPT ![documentID].connectionCount = @ - 1]

\* Mutant: the entry is not deleted.
DeleteEntry_Forget(subs, documentID) == subs

\* delete(m.subscriptions, documentID)
DeleteEntry(subs, documentID) ==
    [t \in DOMAIN subs \ {documentID} |-> subs[t]]

\* Mutant: tear down only below zero.
LastLeaver_Negative(count) == count < 0

LastLeaver_Eager(count) == count <= 1

\* if count <= 0 { unsubscribe and delete }
LastLeaver(count) == count <= 0

\* Mutant: Lock() never waits.
CanLock_NoMutex(p) == TRUE

\* m.mutex.Lock() succeeds only while nobody holds the mutex.
CanLock(p) == mutex = NoOne

\* m.conn.Subscribe(subject, handler) succeeded: one more live subscription.
BusSubscribe(bus, subject) == [bus EXCEPT ![subject] = @ + 1]

\* docSub.subscription.Unsubscribe() was called on a handle for subject.
BusUnsubscribe(bus, subject) ==
    [bus EXCEPT ![subject] = IF @ > 0 THEN @ - 1 ELSE 0]

Log(t, token) == hist' = [hist EXCEPT ![t] = Append(@, token)]

\* A goroutine calls Subscribe(documentID, handler).
SubscribeCall(p, t) ==
    /\ rpc[p] = "idle"
    /\ ncalls < MaxCalls
    /\ ncalls' = ncalls + 1
    /\ rpc' = [rpc EXCEPT ![p] = "s_lock"]
    /\ rarg' = [rarg EXCEPT ![p] = t]
    /\ rerr' = [rerr EXCEPT ![p] = FALSE]
    /\ overlap' = [overlap EXCEPT ![t] =
                     @ \/ \E q \in Callers \ {p} : rpc[q] # "idle" /\ rarg[q] = t]
    /\ UNCHANGED <<subscriptions, mutex, busSubs, rsub, hist, sysVars>>
    /\ UNCHANGED wire

\* m.mutex.Lock(); docSub, exists := m.subscriptions[documentID]
SubscribeLock(p) ==
    /\ rpc[p] = "s_lock"
    /\ CanLock(p)
    /\ mutex' = p
    /\ rpc' = [rpc EXCEPT ![p] =
                 IF Exists(subscriptions, rarg[p]) THEN "s_incr" ELSE "s_backend"]
    /\ Log(rarg[p], "J")
    /\ UNCHANGED <<subscriptions, busSubs, rarg, rsub, rerr, ncalls, overlap, sysVars>>
    /\ UNCHANGED wire

SubscribeFailed_Ignored(ok) == FALSE

\* if err != nil { return fmt.Errorf("failed to subscribe to %s: %w", subject, err) }
SubscribeFailed(ok) == ~ok

\* sub, err := m.conn.Subscribe(subject, handler); on error return it (deferred Unlock).
SubscribeBackend(p) ==
    /\ rpc[p] = "s_backend"
    /\ \E ok \in BOOLEAN :
        /\ busSubs' = IF ok THEN BusSubscribe(busSubs, SubjectOf(rarg[p])) ELSE busSubs
        /\ Log(rarg[p], IF ok THEN "S" ELSE "Sx")
        /\ IF SubscribeFailed(ok)
           THEN /\ rerr' = [rerr EXCEPT ![p] = TRUE]
                /\ rpc' = [rpc EXCEPT ![p] = "idle"]
                /\ mutex' = IF mutex = p THEN NoOne ELSE mutex
                /\ UNCHANGED rsub
           ELSE /\ rsub' = [rsub EXCEPT ![p] = SubjectOf(rarg[p])]
                /\ rpc' = [rpc EXCEPT ![p] = "s_store"]
                /\ UNCHANGED <<mutex, rerr>>
    /\ UNCHANGED <<subscriptions, rarg, ncalls, overlap, sysVars>>
    /\ UNCHANGED wire

\* docSub = &DocumentSubscription{...}; m.subscriptions[documentID] = docSub
SubscribeStore(p) ==
    /\ rpc[p] = "s_store"
    /\ subscriptions' = StoreEntry(subscriptions, rarg[p], rsub[p])
    /\ rpc' = [rpc EXCEPT ![p] = "s_incr"]
    /\ UNCHANGED <<mutex, busSubs, rarg, rsub, rerr, ncalls, hist, overlap, sysVars>>
    /\ UNCHANGED wire

\* docSub.connectionCount++; return nil (deferred Unlock)
SubscribeIncr(p) ==
    /\ rpc[p] = "s_incr"
    /\ subscriptions' = IF rarg[p] \in DOMAIN subscriptions
                        THEN IncrCount(subscriptions, rarg[p])
                        ELSE subscriptions
    /\ rpc' = [rpc EXCEPT ![p] = "idle"]
    /\ mutex' = IF mutex = p THEN NoOne ELSE mutex
    /\ UNCHANGED <<busSubs, rarg, rsub, rerr, ncalls, hist, overlap, sysVars>>
    /\ UNCHANGED wire

\* A goroutine calls Unsubscribe(documentID).
UnsubscribeCall(p, t) ==
    /\ rpc[p] = "idle"
    /\ ncalls < MaxCalls
    /\ ncalls' = ncalls + 1
    /\ rpc' = [rpc EXCEPT ![p] = "u_lock"]
    /\ rarg' = [rarg EXCEPT ![p] = t]
    /\ rerr' = [rerr EXCEPT ![p] = FALSE]
    /\ overlap' = [overlap EXCEPT ![t] =
                     @ \/ \E q \in Callers \ {p} : rpc[q] # "idle" /\ rarg[q] = t]
    /\ UNCHANGED <<subscriptions, mutex, busSubs, rsub, hist, sysVars>>
    /\ UNCHANGED wire

\* m.mutex.Lock(); docSub, exists := ...; if !exists { return nil }
UnsubscribeLock(p) ==
    /\ rpc[p] = "u_lock"
    /\ CanLock(p)
    /\ IF Exists(subscriptions, rarg[p])
       THEN /\ mutex' = p
            /\ rpc' = [rpc EXCEPT ![p] = "u_decr"]
            /\ Log(rarg[p], "L")
       ELSE /\ mutex' = mutex
            /\ rpc' = [rpc EXCEPT ![p] = "idle"]
            /\ Log(rarg[p], "Lx")
    /\ UNCHANGED <<subscriptions, busSubs, rarg, rsub, rerr, ncalls, overlap, sysVars>>
    /\ UNCHANGED wire

\* docSub.connectionCount--; if count <= 0 { Unsubscribe(); delete }; return nil
UnsubscribeDecr(p) ==
    /\ rpc[p] = "u_decr"
    /\ LET t == rarg[p]
           found == t \in DOMAIN subscriptions
           after == IF found THEN DecrCount(subscriptions, t) ELSE subscriptions
           count == IF found THEN after[t].connectionCount ELSE 1
       IN IF found /\ LastLeaver(count)
          THEN /\ \E ok \in BOOLEAN : Log(t, IF ok THEN "U" ELSE "Ux")
               /\ busSubs' = BusUnsubscribe(busSubs, after[t].subscription)
               /\ subscriptions' = DeleteEntry(after, t)
          ELSE /\ subscriptions' = after
               /\ UNCHANGED <<busSubs, hist>>
    /\ rpc' = [rpc EXCEPT ![p] = "idle"]
    /\ mutex' = IF mutex = p THEN NoOne ELSE mutex
    /\ UNCHANGED <<rarg, rsub, rerr, ncalls, overlap, sysVars>>
    /\ UNCHANGED wire

\* Nothing subscribed, nothing published.
NoWire == [subs |-> {}, doc |-> "", subject |-> <<>>, got |-> {}]

InitManager ==
    /\ subscriptions = <<>>
    /\ mutex = NoOne
    /\ busSubs = [s \in Subjects |-> 0]
    /\ rpc = [p \in Callers |-> "idle"]
    /\ rarg = [p \in Callers |-> "d1"]
    /\ rsub = [p \in Callers |-> SubjectOf("d1")]
    /\ rerr = [p \in Callers |-> FALSE]
    /\ ncalls = 0
    /\ hist = [t \in Topics |-> <<>>]
    /\ overlap = [t \in Topics |-> FALSE]
    /\ wire = NoWire

(* ------------------------------------------------------------------ *)
(* Messages: client payloads, bus envelopes, websocket frames          *)
(* ------------------------------------------------------------------ *)

\* websocket.TextMessage / websocket.BinaryMessage
TextMessage == 1
BinaryMessage == 2

ZeroPayload == [action |-> "", position |-> 0, data |-> 0]

\* Bytes that are no JSON object; n tells one such byte string from another.
Opaque(n) ==
    [json |-> FALSE, user_id |-> "", document_id |-> "",
     payload |-> [action |-> "", position |-> 0, data |-> n], timestamp |-> 0]

\* What a client may send as its n-th message: a valid edit or broken JSON.
Inbound(n) ==
    { [json |-> TRUE, payload |-> [action |-> "insert", position |-> 5, data |-> n]],
      [json |-> FALSE, payload |-> ZeroPayload] }

UnmarshalPayload_Lenient(data) ==
    [ok |-> TRUE,
     docMsg |-> [Action |-> data.payload.action,
                 Position |-> data.payload.position,
                 Data |-> data.payload.data]]

\* json.Unmarshal(message.Data, &docMsg)
UnmarshalPayload(data) ==
    [ok |-> data.json,
     docMsg |-> [Action |-> data.payload.action,
                 Position |-> data.payload.position,
                 Data |-> data.payload.data]]

\* event := publisher.DocumentEvent{DocumentID, UserID, Payload, Timestamp}
NewEvent(documentID, userID, docMsg) ==
    [DocumentID |-> documentID, UserID |-> userID, Payload |-> docMsg, Timestamp |-> 0]

\* json.Marshal(event), with the struct's json tags
MarshalEvent(event) ==
    [json |-> TRUE,
     user_id |-> event.UserID,
     document_id |-> event.DocumentID,
     payload |-> [action |-> event.Payload.Action,
                  position |-> event.Payload.Position,
                  data |-> event.Payload.Data],
     timestamp |-> event.Timestamp]

\* json.Unmarshal(msg.Data, &event)
UnmarshalEvent(bytes) ==
    [ok |-> bytes.json,
     event |-> [UserID |-> bytes.user_id,
                DocumentID |-> bytes.document_id,
                Payload |-> [Action |-> bytes.payload.action,
                             Position |-> bytes.payload.position,
                             Data |-> bytes.payload.data],
                Timestamp |-> bytes.timestamp]]

\* A subscription on pattern receives what is published on subject: token by token,
\* "*" in the pattern standing for any one token.
SubjectMatches(pattern, subject) ==
    /\ Len(pattern) = Len(subject)
    /\ \A i \in DOMAIN pattern : pattern[i] = "*" \/ pattern[i] = subject[i]

(* ------------------------------------------------------------------ *)
(* Hub, connections, pumps                                             *)
(* ------------------------------------------------------------------ *)

Alive == crashed = ""

\* The process ends with a panic or a runtime fatal error.
Fatal(msg) == crashed' = msg /\ UNCHANGED survivors

IdleCb ==
    [on |-> FALSE, data |-> Opaque(0), exclude |-> "", visited |-> {}, start |-> {},
     cur |-> {}, phase |-> "idle"]

\* h.connections carries no lock: a goroutine other than self is inside
\* BroadcastToDocument's range over it.
MapRace(self) == \E t \in Topics \ {self} : cb[t].on

\* An unsynchronised write of h.connections goes through, or the runtime sees the
\* concurrent iteration and ends the process.
RaceOutcomes(self) == IF MapRace(self) THEN {FALSE, TRUE} ELSE {FALSE}

DeleteConn_Keep(conns, id) == conns

\* delete(h.connections, id)
DeleteConn(conns, id) == [k \in DOMAIN conns \ {id} |-> conns[k]]

PutConn_Stale(conns, id, conn) ==
    [k \in DOMAIN conns \cup {id} |->
        IF k = id THEN CHOOSE c \in Conns : c # conn ELSE conns[k]]

\* h.connections[id] = conn
PutConn(conns, id, conn) ==
    [k \in DOMAIN conns \cup {id} |-> IF k = id THEN conn ELSE conns[k]]

HasRoom_Always(c) == TRUE

\* case conn.send <- message: succeeds while the buffer has room
HasRoom(c) == Len(send[c]) < SendCap

Enqueue_Front(q, message) == <<message>> \o q

\* conn.send <- message: the channel is first in, first out
Enqueue(q, message) == Append(q, message)

\* if _, ok := h.connections[conn.clientID]; ok
IsRegistered(conns, c) == clientID[c] \in DOMAIN conns

Selected_NeedsSender(c, documentID, excludeID) ==
    /\ docID[c] = documentID
    /\ excludeID # "" /\ clientID[c] # excludeID

Selected_Everyone(c, documentID, excludeID) == docID[c] = documentID

\* if ok && connDocID == documentID { if excludeID != "" && conn.clientID == excludeID { continue } ...
Selected(c, documentID, excludeID) ==
    /\ docID[c] = documentID
    /\ ~(excludeID # "" /\ clientID[c] = excludeID)

\* The live connection set.
LiveConns == {connections[k] : k \in DOMAIN connections}

\* r.PathValue("id") on the route "/ws/echo", which EchoHandler serves; the route
\* "/ws/document/{id}", which DocumentHandler serves, gives a document ID.
EchoDoc == ""

\* Hub.Run waits in its select.
IdleHub == [op |-> "idle", conn |-> {}]

AfterRegister_Pumps == "read"

\* Where HandleWebSocket stands once hub.register <- wsConn has returned: at the call
\* of handler.OnConnect, the go statements of the two pumps still ahead.
AfterRegister == "onconnect"

\* upgrader.Upgrade; wsConn := &Connection{...}; SetMetadata(MetaDocumentIDKey, docId);
\* hub.register <- wsConn: the unbuffered send returns once Hub.Run has received.
\* Connection objects are allocated in order; the first one's names are fixed, the
\* names being interchangeable.
HandleWebSocket(c, id, d) ==
    /\ Alive
    /\ pc[c] = "new"
    /\ hubOp = IdleHub
    /\ \A b \in Conns : b < c => pc[b] # "new"
    /\ c = 1 => (id = "a" /\ d = "d1")
    /\ clientID' = [clientID EXCEPT ![c] = id]
    /\ docID' = [docID EXCEPT ![c] = d]
    /\ hubOp' = [op |-> "register", conn |-> {c}]
    /\ pc' = [pc EXCEPT ![c] = AfterRegister]
    /\ UNCHANGED <<wp, send, closed, tclosed, written, enq, connections, busVars, ctlVars,
                   regVars>>
    /\ UNCHANGED wire

\* case conn := <-h.register: h.connections[conn.clientID] = conn
HubRegister ==
    /\ Alive
    /\ hubOp.op = "register"
    /\ \E c \in hubOp.conn : \E race \in RaceOutcomes("hub") :
        IF race
        THEN Fatal("concurrent map iteration and map write")
        ELSE /\ connections' = PutConn(connections, clientID[c], c)
             /\ hubOp' = IdleHub
             /\ UNCHANGED <<connVars, busVars, ctlVars, regVars>>
    /\ UNCHANGED wire

AfterJoinFailed_Pumps == "read"

\* Where HandleWebSocket stands after handler.OnConnect returned an error: it has
\* returned, no pump was started.
AfterJoinFailed == "failed"

\* handler.OnConnect(wsConn): natsManager.Subscribe(documentID, ...); on error return,
\* else go wsConn.writePump(); go wsConn.readPump(handler)
OnConnect(c) ==
    /\ Alive
    /\ pc[c] = "onconnect"
    /\ docID[c] # EchoDoc
    /\ mutex = NoOne
    /\ LET d == docID[c]
           found == Exists(subscriptions, d)
       IN \E ok \in BOOLEAN :
            IF ~found /\ ~ok
            THEN /\ pc' = [pc EXCEPT ![c] = AfterJoinFailed]
                 /\ UNCHANGED <<wp, subscriptions, busSubs>>
            ELSE /\ subscriptions' =
                       IncrCount(IF found THEN subscriptions
                                 ELSE StoreEntry(subscriptions, d, SubjectOf(d)), d)
                 /\ busSubs' = IF found THEN busSubs
                               ELSE BusSubscribe(busSubs, SubjectOf(d))
                 /\ pc' = [pc EXCEPT ![c] = "read"]
                 /\ wp' = [wp EXCEPT ![c] = "run"]
    /\ UNCHANGED <<clientID, docID, send, closed, tclosed, written, enq, hubVars, busVars, ctlVars>>
    /\ UNCHANGED <<mutex, rpc, rarg, rsub, rerr, ncalls, hist, overlap>>
    /\ UNCHANGED wire

\* c.conn.ReadMessage() returned a message; handler.HandleMessage(c, message):
\* a payload that decodes starts a goroutine publishing the event. The read loops
\* together read at most `limit` messages.
ReadMessageWithin(c, data, limit) ==
    /\ Alive
    /\ pc[c] = "read"
    /\ docID[c] # EchoDoc
    /\ ~tclosed[c]
    /\ nin < limit
    /\ nin' = nin + 1
    /\ LET r == UnmarshalPayload(data)
       IN pubs' = IF r.ok THEN pubs \cup {NewEvent(docID[c], clientID[c], r.docMsg)}
                  ELSE pubs
    /\ UNCHANGED <<connVars, hubVars, busQ, cb, crashed, nglobal, nbus, regVars>>
    /\ UNCHANGED wire

\* The same, within the bound on inbound messages.
ReadMessage(c, data) == ReadMessageWithin(c, data, MaxInbound)

\* EchoHandler.OnConnect logs and returns nil; go wsConn.writePump();
\* go wsConn.readPump(handler)
EchoOnConnect(c) ==
    /\ Alive
    /\ pc[c] = "onconnect"
    /\ docID[c] = EchoDoc
    /\ pc' = [pc EXCEPT ![c] = "read"]
    /\ wp' = [wp EXCEPT ![c] = "run"]
    /\ UNCHANGED <<clientID, docID, send, closed, tclosed, written, enq, hubVars, busVars,
                   ctlVars, regVars>>
    /\ UNCHANGED wire

\* What a client of the echo route may send as its n-th message.
EchoInbound(n) == {[Type |-> TextMessage, Data |-> Opaque(n)]}

\* Connection.SendMessage: select { case c.send <- message: return nil
\*                                  default: return &websocket.CloseError{...} }
SendMessage(c, message) ==
    IF HasRoom(c)
    THEN /\ send' = [send EXCEPT ![c] = Enqueue(@, message)]
         /\ enq' = [enq EXCEPT ![c] = Append(@, message)]
    ELSE UNCHANGED <<send, enq>>

\* c.conn.ReadMessage() returned a message on an echo connection;
\* EchoHandler.HandleMessage: return conn.SendMessage(message). The send on a closed
\* channel panics.
EchoReadMessage(c, message) ==
    /\ Alive
    /\ pc[c] = "read"
    /\ docID[c] = EchoDoc
    /\ ~tclosed[c]
    /\ nin < MaxInbound
    /\ IF closed[c]
       THEN Fatal("send on closed channel")
       ELSE /\ nin' = nin + 1
            /\ SendMessage(c, message)
            /\ UNCHANGED <<pc, wp, clientID, docID, closed, tclosed, written, hubVars,
                           busVars, crashed, nglobal, nbus, regVars>>
    /\ UNCHANGED wire

\* readPump's deferred cleanup on an echo connection after the unregister:
\* c.conn.Close(); EchoHandler.OnDisconnect logs.
EchoOnDisconnect(c) ==
    /\ Alive
    /\ pc[c] = "leave"
    /\ docID[c] = EchoDoc
    /\ pc' = [pc EXCEPT ![c] = "done"]
    /\ tclosed' = [tclosed EXCEPT ![c] = TRUE]
    /\ UNCHANGED <<wp, clientID, docID, send, closed, written, enq, hubVars, busVars,
                   ctlVars, regVars>>
    /\ UNCHANGED wire

\* c.conn.ReadMessage() returned an error: break, run the deferred cleanup.
ReadError(c) ==
    /\ Alive
    /\ pc[c] = "read"
    /\ pc' = [pc EXCEPT ![c] = "unreg"]
    /\ UNCHANGED <<wp, clientID, docID, send, closed, tclosed, written, enq, hubVars, busVars, ctlVars, regVars>>
    /\ UNCHANGED wire

\* c.hub.unregister <- c: the unbuffered send returns once Hub.Run has received;
\* the deferred cleanup then goes on while Hub.Run carries the request out.
UnregisterSend(c) ==
    /\ Alive
    /\ pc[c] = "unreg"
    /\ hubOp = IdleHub
    /\ pc' = [pc EXCEPT ![c] = "leave"]
    /\ hubOp' = [op |-> "unregister", conn |-> {c}]
    /\ UNCHANGED <<wp, clientID, docID, send, closed, tclosed, written, enq, connections,
                   busVars, ctlVars, regVars>>
    /\ UNCHANGED wire

\* case conn := <-h.unregister:
\* if _, ok := h.connections[conn.clientID]; ok { delete(...); close(conn.send) }
HubUnregister ==
    /\ Alive
    /\ hubOp.op = "unregister"
    /\ \E c \in hubOp.conn :
        IF IsRegistered(connections, c)
        THEN \E race \in RaceOutcomes("hub") :
               IF race
               THEN Fatal("concurrent map iteration and map write")
               ELSE /\ hubOp' = IdleHub
                    /\ connections' = DeleteConn(connections, clientID[c])
                    /\ IF closed[c]
                       THEN crashed' = "close of closed channel" /\ closed' = closed
                       ELSE closed' = [closed EXCEPT ![c] = TRUE] /\ crashed' = crashed
                    /\ UNCHANGED <<pc, wp, clientID, docID, send, tclosed, written, enq,
                                   busVars, nin, nglobal, nbus, regVars>>
        ELSE /\ hubOp' = IdleHub
             /\ UNCHANGED <<connVars, connections, busVars, ctlVars, regVars>>
    /\ UNCHANGED wire

\* readPump's deferred cleanup after the unregister: c.conn.Close();
\* handler.OnDisconnect(c): natsManager.Unsubscribe(documentID). The subscription's
\* pending messages go with it.
OnDisconnect(c) ==
    /\ Alive
    /\ pc[c] = "leave"
    /\ docID[c] # EchoDoc
    /\ mutex = NoOne
    /\ pc' = [pc EXCEPT ![c] = "done"]
    /\ tclosed' = [tclosed EXCEPT ![c] = TRUE]
    /\ LET d == docID[c]
       IN IF ~Exists(subscriptions, d)
          THEN UNCHANGED <<subscriptions, busSubs, busQ>>
          ELSE LET after == DecrCount(subscriptions, d)
               IN IF LastLeaver(after[d].connectionCount)
                  THEN /\ busSubs' = BusUnsubscribe(busSubs, after[d].subscription)
                       /\ subscriptions' = DeleteEntry(after, d)
                       /\ busQ' = [busQ EXCEPT ![d] = <<>>]
                  ELSE /\ subscriptions' = after
                       /\ UNCHANGED <<busSubs, busQ>>
    /\ UNCHANGED <<wp, clientID, docID, send, closed, written, enq, hubVars, pubs, cb, ctlVars>>
    /\ UNCHANGED <<mutex, rpc, rarg, rsub, rerr, ncalls, hist, overlap>>
    /\ UNCHANGED wire

\* for message := range c.send { c.conn.WriteMessage(...) }: one iteration.
\* A failed write returns; the deferred c.conn.Close() runs.
WriteMessage(c) ==
    /\ Alive
    /\ wp[c] = "run"
    /\ send[c] # <<>>
    /\ send' = [send EXCEPT ![c] = Tail(@)]
    /\ \E ok \in BOOLEAN :
        IF ok /\ ~tclosed[c]
        THEN /\ written' = [written EXCEPT ![c] = Append(@, Head(send[c]))]
             /\ UNCHANGED <<wp, tclosed>>
        ELSE /\ wp' = [wp EXCEPT ![c] = "done"]
             /\ tclosed' = [tclosed EXCEPT ![c] = TRUE]
             /\ UNCHANGED written
    /\ UNCHANGED <<pc, clientID, docID, closed, enq, hubVars, busVars, ctlVars, regVars>>
    /\ UNCHANGED wire

\* The frame of c.conn.WriteMessage(websocket.CloseMessage, []byte{})
CloseFrame == [Type |-> 8, Data |-> Opaque(0)]

\* range c.send ended (channel closed and drained):
\* c.conn.WriteMessage(websocket.CloseMessage, []byte{}); deferred c.conn.Close()
WriteClose(c) ==
    /\ Alive
    /\ wp[c] = "run"
    /\ send[c] = <<>>
    /\ closed[c]
    /\ written' = [written EXCEPT ![c] = IF tclosed[c] THEN @ ELSE Append(@, CloseFrame)]
    /\ wp' = [wp EXCEPT ![c] = "done"]
    /\ tclosed' = [tclosed EXCEPT ![c] = TRUE]
    /\ UNCHANGED <<pc, clientID, docID, send, closed, enq, hubVars, busVars, ctlVars, regVars>>
    /\ UNCHANGED wire

\* case message := <-h.broadcast: for clientID, conn := range h.connections {
\*   select { case conn.send <- message: default: delete(...); close(conn.send) } }
HubBroadcast(message) ==
    /\ Alive
    /\ hubOp = IdleHub
    /\ nglobal < MaxGlobal
    /\ LET live == LiveConns
           room == {c \in live : HasRoom(c)}
           full == live \ room
       IN IF \E c \in live : closed[c]
          THEN Fatal("send on closed channel")
          ELSE \E race \in (IF full = {} THEN {FALSE} ELSE RaceOutcomes("hub")) :
                 IF race
                 THEN Fatal("concurrent map iteration and map write")
                 ELSE /\ nglobal' = nglobal + 1
                      /\ send' = [c \in Conns |->
                                    IF c \in room THEN Enqueue(send[c], message) ELSE send[c]]
                      /\ enq' = [c \in Conns |->
                                   IF c \in room THEN Append(enq[c], message) ELSE enq[c]]
                      /\ closed' = [c \in Conns |-> closed[c] \/ c \in full]
                      /\ connections' =
                            [k \in {k \in DOMAIN connections : connections[k] \in room}
                                |-> connections[k]]
                      /\ UNCHANGED <<pc, wp, clientID, docID, tclosed, written, hubOp,
                                     busVars, crashed, nin, nbus, regVars>>
    /\ UNCHANGED wire

(* ------------------------------------------------------------------ *)
(* Bus and the forwarding callback                                     *)
(* ------------------------------------------------------------------ *)

\* The topics whose live subscription receives what is published on subject.
Receivers(subject) ==
    {t \in Topics : /\ Exists(subscriptions, t)
                    /\ busSubs[subscriptions[t].subscription] > 0
                    /\ SubjectMatches(subscriptions[t].subscription, subject)}

\* go func() { h.natsManager.PublishDocumentEvent(event) }():
\* json.Marshal(event); m.conn.Publish("document.<id>.edit", data); ok tells whether
\* the bus took the message.
Publish(event, ok) ==
    /\ Alive
    /\ event \in pubs
    /\ pubs' = pubs \ {event}
    /\ busQ' = [t \in Topics |->
                  IF ok /\ t \in Receivers(SubjectOf(event.DocumentID))
                  THEN Append(busQ[t], MarshalEvent(event))
                  ELSE busQ[t]]
    /\ UNCHANGED <<connVars, hubVars, cb, ctlVars, regVars>>
    /\ UNCHANGED wire

\* What another publisher may put on a document's subject as the n-th such message:
\* bytes that are no JSON object, or the event of a user of another gateway.
External(documentID, n) ==
    { Opaque(n),
      MarshalEvent([UserID |-> "b", DocumentID |-> documentID,
                    Payload |-> [Action |-> "insert", Position |-> 5, Data |-> n],
                    Timestamp |-> 0]) }

\* A publisher outside this process publishes bytes on "document.<id>.edit"; the bus
\* hands them to the live subscriptions on that subject.
ExternalPublish(documentID, bytes) ==
    /\ Alive
    /\ nbus < MaxBus
    /\ nbus' = nbus + 1
    /\ busQ' = [t \in Topics |->
                  IF t \in Receivers(SubjectOf(documentID))
                  THEN Append(busQ[t], bytes)
                  ELSE busQ[t]]
    /\ UNCHANGED <<connVars, hubVars, pubs, cb, crashed, nin, nglobal, regVars>>
    /\ UNCHANGED wire

\* The subscription's callback starts on the next pending message:
\* json.Unmarshal(msg.Data, &event); BroadcastToDocument(documentID, msg.Data[, event.UserID])
Deliver(t) ==
    /\ Alive
    /\ ~cb[t].on
    /\ busQ[t] # <<>>
    /\ busQ' = [busQ EXCEPT ![t] = Tail(@)]
    /\ LET r == UnmarshalEvent(Head(busQ[t]))
       IN cb' = [cb EXCEPT ![t] =
                   [on |-> TRUE, data |-> Head(busQ[t]),
                    exclude |-> IF r.ok THEN r.event.UserID ELSE "",
                    visited |-> {}, start |-> DOMAIN connections,
                    cur |-> {}, phase |-> "pick"]]
    /\ UNCHANGED <<connVars, hubVars, pubs, ctlVars, regVars>>
    /\ UNCHANGED wire

\* Keys the range loop has yet to produce whose connection is selected.
Candidates(t) ==
    {k \in DOMAIN connections \ cb[t].visited :
        Selected(connections[k], t, cb[t].exclude)}

\* for _, conn := range h.connections: the loop produces the next selected connection.
BcPick(t) ==
    /\ Alive
    /\ cb[t].on /\ cb[t].phase = "pick"
    /\ \E k \in Candidates(t) :
        cb' = [cb EXCEPT ![t].visited = @ \cup {k},
                         ![t].cur = {connections[k]},
                         ![t].phase = "send"]
    /\ UNCHANGED <<connVars, hubVars, pubs, busQ, ctlVars, regVars>>
    /\ UNCHANGED wire

\* The range loop ends: every entry present when it began was produced or deleted
\* (an entry created during the loop may be skipped).
BcDone(t) ==
    /\ Alive
    /\ cb[t].on /\ cb[t].phase = "pick"
    /\ Candidates(t) \cap cb[t].start = {}
    /\ cb' = [cb EXCEPT ![t] = IdleCb]
    /\ UNCHANGED <<connVars, hubVars, pubs, busQ, ctlVars, regVars>>
    /\ UNCHANGED wire

\* select { case conn.send <- DocumentMessage{Type: TextMessage, Data: data}: default: ... }
BcSend(t) ==
    /\ Alive
    /\ cb[t].on /\ cb[t].phase = "send"
    /\ \E c \in cb[t].cur :
        LET message == [Type |-> TextMessage, Data |-> cb[t].data]
        IN IF closed[c]
           THEN Fatal("send on closed channel")
           ELSE IF HasRoom(c)
           THEN /\ send' = [send EXCEPT ![c] = Enqueue(@, message)]
                /\ enq' = [enq EXCEPT ![c] = Append(@, message)]
                /\ cb' = [cb EXCEPT ![t].cur = {}, ![t].phase = "pick"]
                /\ UNCHANGED <<pc, wp, clientID, docID, closed, tclosed, written, hubVars,
                               pubs, busQ, ctlVars, regVars>>
           ELSE /\ cb' = [cb EXCEPT ![t].phase = "evict"]
                /\ UNCHANGED <<connVars, hubVars, pubs, busQ, ctlVars, regVars>>
    /\ UNCHANGED wire

\* default: delete(h.connections, conn.clientID); close(conn.send)
BcEvict(t) ==
    /\ Alive
    /\ cb[t].on /\ cb[t].phase = "evict"
    /\ \E c \in cb[t].cur : \E race \in RaceOutcomes(t) :
        IF race
        THEN Fatal("concurrent map iteration and map write")
        ELSE /\ connections' = DeleteConn(connections, clientID[c])
             /\ IF closed[c]
                THEN crashed' = "close of closed channel" /\ closed' = closed
                ELSE closed' = [closed EXCEPT ![c] = TRUE] /\ crashed' = crashed
             /\ cb' = [cb EXCEPT ![t].cur = {}, ![t].phase = "pick"]
             /\ UNCHANGED <<pc, wp, clientID, docID, send, tclosed, written, enq, hubOp,
                            pubs, busQ, nin, nglobal, nbus, regVars>>
    /\ UNCHANGED wire

InitSys ==
    /\ pc = [c \in Conns |-> "new"]
    /\ wp = [c \in Conns |-> "off"]
    /\ clientID = [c \in Conns |-> "a"]
    /\ docID = [c \in Conns |-> "d1"]
    /\ connections = <<>>
    /\ hubOp = IdleHub
    /\ send = [c \in Conns |-> <<>>]
    /\ closed = [c \in Conns |-> FALSE]
    /\ tclosed = [c \in Conns |-> FALSE]
    /\ written = [c \in Conns |-> <<>>]
    /\ enq = [c \in Conns |-> <<>>]
    /\ pubs = {}
    /\ busQ = [t \in Topics |-> <<>>]
    /\ cb = [t \in Topics |-> IdleCb]
    /\ crashed = ""
    /\ nin = 0
    /\ nglobal = 0
    /\ nbus = 0

InitReg == InitManager /\ InitSys

NextReg ==
    \/ \E p \in Callers, t \in Topics : SubscribeCall(p, t)
    \/ \E p \in Callers : SubscribeLock(p)
    \/ \E p \in Callers : SubscribeBackend(p)
    \/ \E p \in Callers : SubscribeStore(p)
    \/ \E p \in Callers : SubscribeIncr(p)
    \/ \E p \in Callers, t \in Topics : UnsubscribeCall(p, t)
    \/ \E p \in Callers : UnsubscribeLock(p)
    \/ \E p \in Callers : UnsubscribeDecr(p)

\* The registry driven directly by concurrent callers.
SpecReg == InitReg /\ [][NextReg]_vars

\* What is put on Hub.broadcast: the n-th opaque binary message.
GlobalMessage(n) == [Type |-> BinaryMessage, Data |-> Opaque(n)]

Init == InitManager /\ InitSys

\* Steps the clients decide: connecting, sending, going away, reading what is written.
Clients ==
    \/ \E c \in Conns, id \in ClientIDs, d \in Topics : HandleWebSocket(c, id, d)
    \/ \E c \in Conns : \E data \in Inbound(nin + 1) : ReadMessage(c, data)
    \/ \E c \in Conns : ReadError(c)
    \/ \E c \in Conns : WriteMessage(c)

\* Steps the gateway's goroutines take on their own.
Inside ==
    \/ \E c \in Conns : OnConnect(c)
    \/ HubRegister
    \/ \E c \in Conns : UnregisterSend(c)
    \/ HubUnregister
    \/ \E c \in Conns : OnDisconnect(c)
    \/ \E c \in Conns : WriteClose(c)
    \/ \E t \in Topics : Deliver(t)
    \/ \E t \in Topics : BcPick(t)
    \/ \E t \in Topics : BcDone(t)
    \/ \E t \in Topics : BcSend(t)

Next ==
    \/ Clients
    \/ Inside
    \/ \E t \in Topics : BcEvict(t)
    \/ HubBroadcast(GlobalMessage(nglobal + 1))
    \/ \E e \in pubs : \E ok \in BOOLEAN : Publish(e, ok)

\* The gateway: connections, hub loop, registry, bus and forwarding callbacks.
Spec == Init /\ [][Next]_vars

\* Nothing is put on Hub.broadcast and the bus takes every message. No queue fills
\* (MaxInbound < SendCap), so the eviction branch has no step to take.
NextLive ==
    \/ Clients
    \/ Inside
    \/ \E e \in pubs : Publish(e, TRUE)

\* The goroutines the runtime keeps scheduling: none of their steps waits for a client.
Fairness ==
    /\ WF_vars(Inside)
    /\ WF_vars(\E e \in pubs : Publish(e, TRUE))

\* The gateway with idle Hub.broadcast on a reliable bus, its goroutines scheduled fairly.
SpecLive == Init /\ [][NextLive]_vars /\ Fairness

\* A transport whose connection was closed fails every read and every write at once,
\* and a write on an open transport completes or fails: c.conn.ReadMessage() on a
\* closed connection returns its error, c.conn.WriteMessage returns.
FairnessStop ==
    /\ Fairness
    /\ \A c \in Conns : WF_vars(tclosed[c] /\ ReadError(c))
    /\ \A c \in Conns : WF_vars(WriteMessage(c))

\* The gateway of SpecLive on transports whose reads and writes always return.
SpecStop == Init /\ [][NextLive]_vars /\ FairnessStop

\* No client sends anything or takes what is written to it, and nothing is put on
\* Hub.broadcast; what reaches the forwarding callbacks was published by others.
NextBus ==
    \/ \E c \in Conns, id \in ClientIDs, d \in Topics : HandleWebSocket(c, id, d)
    \/ \E c \in Conns : ReadError(c)
    \/ Inside
    \/ \E t \in Topics : BcEvict(t)
    \/ \E t \in Topics : \E bytes \in External(t, nbus + 1) : ExternalPublish(t, bytes)

\* The gateway fed from the bus by other publishers, its clients stalled.
SpecBus == Init /\ [][NextBus]_vars

\* Both routes on one hub, fed by the bus and by Hub.broadcast; the clients neither
\* take what is written to them nor go away, so queues only fill.
NextQueue ==
    \/ \E c \in Conns, id \in ClientIDs, d \in Topics \cup {EchoDoc} : HandleWebSocket(c, id, d)
    \/ HubRegister
    \/ \E c \in Conns : OnConnect(c)
    \/ \E c \in Conns : EchoOnConnect(c)
    \/ \E c \in Conns : \E m \in EchoInbound(nin + 1) : EchoReadMessage(c, m)
    \/ \E t \in Topics : \E bytes \in External(t, nbus + 1) : ExternalPublish(t, bytes)
    \/ \E t \in Topics : Deliver(t)
    \/ \E t \in Topics : BcPick(t)
    \/ \E t \in Topics : BcSend(t)
    \/ \E t \in Topics : BcEvict(t)
    \/ \E t \in Topics : BcDone(t)
    \/ HubBroadcast(GlobalMessage(nglobal + 1))

\* The gateway's three enqueueing sites with stalled clients.
SpecQueue == Init /\ [][NextQueue]_vars

\* Clients that send nothing; another publisher feeds document d1 on the bus, so that
\* queues fill and BroadcastToDocument evicts; what is written is taken or the write
\* fails.
NextEvict ==
    \/ \E c \in Conns, id \in ClientIDs, d \in Topics : HandleWebSocket(c, id, d)
    \/ \E c \in Conns : ReadError(c)
    \/ \E c \in Conns : WriteMessage(c)
    \/ Inside
    \/ \E t \in Topics : BcEvict(t)
    \/ ExternalPublish("d1", Opaque(nbus + 1))

\* The callback goroutine that found a queue full goes on to its delete and close.
FairnessEvict ==
    /\ FairnessStop
    /\ WF_vars(\E t \in Topics : BcEvict(t))

\* The gateway fed from the bus, on transports whose reads and writes always return.
SpecEvict == Init /\ [][NextEvict]_vars /\ FairnessEvict

\* Clients that stay connected and send up to MaxOrdered messages; the events go
\* through the publishing goroutines, the bus and the forwarding callbacks.
NextOrder ==
    \/ \E c \in Conns, id \in ClientIDs, d \in Topics : HandleWebSocket(c, id, d)
    \/ HubRegister
    \/ \E c \in Conns : OnConnect(c)
    \/ \E c \in Conns : \E data \in Inbound(nin + 1) : ReadMessageWithin(c, data, MaxOrdered)
    \/ \E e \in pubs : \E ok \in BOOLEAN : Publish(e, ok)
    \/ \E t \in Topics : Deliver(t)
    \/ \E t \in Topics : BcPick(t)
    \/ \E t \in Topics : BcSend(t)
    \/ \E t \in Topics : BcDone(t)

\* The gateway's path from inbound messages to the bus and back.
SpecOrder == Init /\ [][NextOrder]_vars

(* ------------------------------------------------------------------ *)
(* Subjects                                                            *)
(* ------------------------------------------------------------------ *)

\* Document IDs a request path can carry: plain ones, the one-token wildcard of the
\* bus, and one holding the token separator.
DocIDs == Topics \cup {"*", "d1.x"}

\* DocumentEventPayload.Action
EditActions == {"insert", "delete"}

\* Manager.PublishDocumentEvent: fmt.Sprintf("document.%s.edit", event.DocumentID)
ManagerSubject(event) == SubjectOf(event.DocumentID)

\* NATSPublisher.PublishDocumentEvent:
\* fmt.Sprintf("document.%s.edit.%s", event.DocumentID, event.Payload.Action)
PublisherSubject(event) == SubjectOf(event.DocumentID) \o <<event.Payload.Action>>

\* Manager.Subscribe for a document without entry: m.conn.Subscribe(subject, handler)
WireSubscribe(documentID) ==
    /\ wire' = [NoWire EXCEPT !.subs = wire.subs \cup {documentID}]
    /\ UNCHANGED <<regVars, sysVars>>

\* conn.Publish(subject, data): the subscriptions whose subject matches receive it.
WirePublish(event, subject) ==
    /\ wire' = [subs |-> wire.subs, doc |-> event.DocumentID, subject |-> subject,
                got |-> {d \in wire.subs : SubjectMatches(SubjectOf(d), subject)}]
    /\ UNCHANGED <<regVars, sysVars>>

\* Events of user a, one per document and action.
WireEvents ==
    {NewEvent(d, "a", [Action |-> act, Position |-> 5, Data |-> 1]) :
        d \in DocIDs, act \in EditActions}

NextSubject ==
    \/ \E d \in DocIDs : WireSubscribe(d)
    \/ \E e \in WireEvents : WirePublish(e, ManagerSubject(e))
    \/ \E e \in WireEvents : WirePublish(e, PublisherSubject(e))

\* Subscribing and publishing by subject, through either publisher.
SpecSubject == Init /\ [][NextSubject]_vars

(* ------------------------------------------------------------------ *)
(* Registry properties                                                 *)
(* ------------------------------------------------------------------ *)

Count(h, token) == Cardinality({i \in DOMAIN h : h[i] = token})

\* The calls of a history, in lock order, without the backend calls.
CallsOf(h) ==
    LET F[i \in 0..Len(h)] ==
            IF i = 0 THEN <<>>
            ELSE IF h[i] = "J" THEN Append(F[i-1], "Join")
            ELSE IF h[i] \in {"L", "Lx"} THEN Append(F[i-1], "Leave")
            ELSE F[i-1]
    IN F[Len(h)]

\* Every call on t that took the lock has returned.
Settled(t) ==
    \A p \in Callers :
        rpc[p] \in {"s_backend", "s_store", "s_incr", "u_decr"} => rarg[p] # t

\* No call on t is in progress or waiting.
Idle(t) == \A p \in Callers : rpc[p] # "idle" => rarg[p] # t

SubExists(t) == busSubs[SubjectOf(t)] > 0

JoinsMade(t) == Count(hist[t], "J")
LeavesMade(t) == Count(hist[t], "L") + Count(hist[t], "Lx")
JoinsOk(t) == Count(hist[t], "J") - Count(hist[t], "Sx")
LeavesOnEntry(t) == Count(hist[t], "L")

\* C1 as stated: after each call a subscription for t exists iff
\* (Join calls made) - (Leave calls made) > 0.
C1_NetCallCount ==
    \A t \in Topics :
        Settled(t) => (SubExists(t) <=> JoinsMade(t) - LeavesMade(t) > 0)

\* C1 amended: after each call a subscription for t exists iff (Join calls that
\* returned without error) - (Leave calls made while t had an entry) > 0.
C1_RefCount ==
    \A t \in Topics :
        Settled(t) => (SubExists(t) <=> JoinsOk(t) - LeavesOnEntry(t) > 0)

C1_Witness ==
    /\ Settled("d1")
    /\ CallsOf(hist["d1"]) = <<"Leave", "Join", "Join", "Leave">>
    /\ SubExists("d1")

\* C2: whenever the registry lock is free, t has an entry with a live backend
\* subscription iff its stored count is > 0: every entry has a count > 0 and a
\* live subscription, and no subscription is live without an entry.
C2_CountMatchesSubscription ==
    mutex = NoOne =>
        \A t \in Topics :
            /\ Exists(subscriptions, t) =>
                  /\ subscriptions[t].connectionCount > 0
                  /\ busSubs[subscriptions[t].subscription] > 0
            /\ ~Exists(subscriptions, t) => busSubs[SubjectOf(t)] = 0

C2_Witness ==
    /\ mutex = NoOne
    /\ overlap["d1"]
    /\ Exists(subscriptions, "d1")
    /\ subscriptions["d1"].connectionCount = 1
    /\ Count(hist["d1"], "L") = 1
    /\ \E p \in Callers : rpc[p] = "u_lock" /\ rarg[p] = "d1"

OnlyJoinsOk(t) == \A i \in DOMAIN hist[t] : hist[t][i] \in {"J", "S"}

\* C3: N concurrent Join(t) calls on a topic without an entry, the backend
\* subscribe succeeding, make exactly one backend Subscribe call, and once all N
\* have returned the stored count is N.
C3_OneSubscribeCountN ==
    \A t \in Topics :
        OnlyJoinsOk(t) =>
            /\ Count(hist[t], "S") <= 1
            /\ (Idle(t) /\ JoinsMade(t) >= 1) =>
                  /\ Count(hist[t], "S") = 1
                  /\ busSubs[SubjectOf(t)] = 1
                  /\ Exists(subscriptions, t)
                  /\ subscriptions[t].connectionCount = JoinsMade(t)

C3_Witness ==
    /\ overlap["d1"]
    /\ Idle("d1")
    /\ hist["d1"] = <<"J", "S", "J">>
    /\ subscriptions["d1"].connectionCount = 2

\* C4 as stated: the calls Join, Join, Leave, Leave on t make exactly one
\* Subscribe, in the first Join, and one Unsubscribe, in the second Leave.
C4_JoinJoinLeaveLeave ==
    \A t \in Topics :
        (Settled(t) /\ CallsOf(hist[t]) = <<"Join", "Join", "Leave", "Leave">>) =>
            hist[t] \in {<<"J", "S", "J", "L", "L", "U">>,
                         <<"J", "S", "J", "L", "L", "Ux">>}

\* C4 amended: the same, provided the backend Subscribe of the first Join succeeds.
C4_JoinJoinLeaveLeaveOk ==
    \A t \in Topics :
        (/\ Settled(t)
         /\ CallsOf(hist[t]) = <<"Join", "Join", "Leave", "Leave">>
         /\ Len(hist[t]) >= 2 /\ hist[t][2] = "S") =>
            hist[t] \in {<<"J", "S", "J", "L", "L", "U">>,
                         <<"J", "S", "J", "L", "L", "Ux">>}

C4_Witness ==
    /\ Settled("d1")
    /\ hist["d1"] = <<"J", "S", "J", "L", "L", "U">>
    /\ ~Exists(subscriptions, "d1")
    /\ busSubs[SubjectOf("d1")] = 0

(* ------------------------------------------------------------------ *)
(* Hub and forwarding properties                                       *)
(* ------------------------------------------------------------------ *)

\* The messages of history h that are envelopes naming userID as their sender.
EnvelopesFrom(h, userID) ==
    {i \in DOMAIN h : LET r == UnmarshalEvent(h[i].Data)
                      IN r.ok /\ r.event.UserID = userID}

\* C5: an envelope that decodes with a non-empty user_id equal to a connection's
\* client ID is never enqueued on that connection's outbound queue, and the
\* forwarding callback never holds that connection as the one to enqueue on.
C5_NoEchoToSender ==
    /\ \A c \in Conns : pc[c] # "new" => EnvelopesFrom(enq[c], clientID[c]) = {}
    /\ \A t \in Topics : \A c \in cb[t].cur :
          cb[t].exclude # "" => clientID[c] # cb[t].exclude

\* C5 witness: a forwarding callback has returned; it enqueued connection a's edit
\* on its peer b and on nothing of a, which is live on the same topic.
C5_Witness ==
    \E a \in Conns, b \in Conns :
        /\ a # b /\ a \in LiveConns /\ b \in LiveConns
        /\ pc[a] = "read" /\ pc[b] = "read" /\ docID[a] = docID[b]
        /\ EnvelopesFrom(enq[b], clientID[a]) # {}
        /\ ~cb[docID[a]].on
        /\ HasRoom(a)

\* The valid edits a client can send, as the events HandleMessage builds.
AllEdits ==
    {NewEvent(d, u, [Action |-> "insert", Position |-> 5, Data |-> n]) :
        d \in Topics, u \in ClientIDs, n \in 1..MaxInbound}

\* The positions of history h holding event e's payload, user_id and document_id.
CopiesOf(h, e) ==
    {i \in DOMAIN h : LET r == UnmarshalEvent(h[i].Data)
                      IN /\ r.ok
                         /\ r.event.Payload = e.Payload
                         /\ r.event.UserID = e.UserID
                         /\ r.event.DocumentID = e.DocumentID}

\* a and b are registered and joined on e's topic and a's edit e awaits publishing.
Sent(a, b, e) ==
    /\ Alive
    /\ a # b /\ a \in LiveConns /\ b \in LiveConns
    /\ pc[a] = "read" /\ pc[b] = "read"
    /\ docID[a] = e.DocumentID /\ docID[b] = e.DocumentID
    /\ clientID[a] = e.UserID
    /\ e \in pubs

\* b's read loop has ended or b's queue was found full and closed.
Gone(b) == pc[b] # "read" \/ closed[b]

\* C6: when a and b are registered and joined on T and a sends a valid edit, then
\* (the bus taking every message, b staying and b's queue not full) b's outbound
\* queue eventually receives the envelope of that edit, and never a second copy.
C6_EditReachesPeer ==
    /\ [](\A b \in Conns : \A e \in AllEdits : Cardinality(CopiesOf(enq[b], e)) <= 1)
    /\ \A a \in Conns : \A b \in Conns : \A e \in AllEdits :
          Sent(a, b, e) ~> (Cardinality(CopiesOf(enq[b], e)) = 1 \/ Gone(b))

\* C6 witness: the edit did reach the peer's queue.
C6_Witness ==
    \E b \in Conns : \E e \in AllEdits :
        /\ pc[b] = "read" /\ ~closed[b]
        /\ clientID[b] # e.UserID
        /\ Cardinality(CopiesOf(enq[b], e)) = 1

\* C7: when BroadcastToDocument finds a selected connection's queue full, it neither
\* enqueues nor skips it: once it moves on, the connection is out of the live set and
\* its queue is closed; and nothing is ever enqueued on a closed queue.
C7_FullQueueEvicted ==
    [][ /\ \A t \in Topics : \A c \in cb[t].cur :
              /\ (cb[t].phase = "send" /\ ~closed[c] /\ Len(send[c]) >= SendCap
                    /\ cb'[t] # cb[t])
                 => (cb'[t].phase = "evict" /\ cb'[t].cur = {c} /\ send'[c] = send[c])
              /\ (cb[t].phase = "evict" /\ cb'[t] # cb[t])
                 => (c \notin LiveConns' /\ closed'[c])
        /\ \A c \in Conns : closed[c] => enq'[c] = enq[c] ]_vars

\* C7 witness: a connection whose queue held SendCap global messages was evicted by
\* a forwarding callback that has returned; its read loop is still running.
C7_Witness ==
    \E c \in Conns :
        /\ Alive
        /\ pc[c] = "read" /\ closed[c] /\ c \notin LiveConns
        /\ Len(enq[c]) = SendCap
        /\ \A i \in DOMAIN enq[c] : enq[c][i].Type = BinaryMessage
        /\ ~cb[docID[c]].on

\* C8: an Unregister of a connection that is no longer in the live set changes
\* neither the live set nor any queue, and raises no panic.
C8_UnregisterAbsentIsNoop ==
    [][ \A c \in Conns :
          (hubOp = [op |-> "unregister", conn |-> {c}] /\ hubOp' = IdleHub
             /\ c \notin LiveConns)
          => UNCHANGED <<connections, closed, crashed>> ]_vars

\* C8 witness: an evicted connection, its queue already closed, is about to be
\* unregistered while another connection is registered under its client ID.
C8_Witness ==
    \E c \in Conns :
        /\ Alive
        /\ hubOp = [op |-> "unregister", conn |-> {c}]
        /\ closed[c] /\ c \notin LiveConns
        /\ clientID[c] \in DOMAIN connections

IsPrefix(s, h) == Len(s) <= Len(h) /\ \A i \in DOMAIN s : s[i] = h[i]

\* The frames written for c, the closing frame left out.
Frames(c) ==
    IF written[c] # <<>> /\ written[c][Len(written[c])] = CloseFrame
    THEN SubSeq(written[c], 1, Len(written[c]) - 1)
    ELSE written[c]

\* C9: the frames written to a connection's transport are, in order and without
\* gap or repetition, the first messages enqueued on its outbound queue.
C9_WrittenInOrder == \A c \in Conns : IsPrefix(Frames(c), enq[c])

\* C9 witness: three different messages were enqueued on one connection and all
\* three were written.
C9_Witness ==
    \E c \in Conns :
        /\ Len(Frames(c)) = 3
        /\ Frames(c) = enq[c]
        /\ Cardinality({enq[c][i] : i \in DOMAIN enq[c]}) = 3

\* C10: every connection in the live set has an open outbound queue.
C10_LiveQueuesOpen == \A c \in LiveConns : ~closed[c]

\* C10 witness: one connection's queue was closed on eviction while it still reads,
\* and another connection is live.
C10_Witness ==
    \E c \in Conns :
        /\ Alive
        /\ closed[c] /\ pc[c] = "read"
        /\ LiveConns # {}

(* ------------------------------------------------------------------ *)
(* Serialization, lifecycle order, subscription lifetime               *)
(* ------------------------------------------------------------------ *)

\* The goroutines that are inside an operation on h.connections: the hub loop while it
\* carries out a request, and every forwarding callback inside BroadcastToDocument.
InsideLiveSet ==
    {t \in Topics : cb[t].on} \cup (IF hubOp = IdleHub THEN {} ELSE {"hub"})

\* C11: at no time are two operations on the hub's live set in progress: a register,
\* unregister or broadcast of the hub loop and the BroadcastToDocument calls of the
\* bus callbacks exclude one another.
C11_LiveSetSerialized == Cardinality(InsideLiveSet) <= 1

\* C11 witness: the runtime noticed the unsynchronised access and ended the process.
C11_Witness == crashed = "concurrent map iteration and map write"

\* C12: whenever a read loop's cleanup runs the disconnect hook, the hub has already
\* removed the connection from the live set and closed its outbound queue.
C12_HookAfterRemovalAndClose ==
    [][ \A c \in Conns :
          (pc[c] = "leave" /\ pc'[c] = "done") => (c \notin LiveConns /\ closed[c]) ]_vars

\* C12 witness: the disconnect hook of a connection has run while Hub.Run still holds
\* that connection's unregister request.
C12_Witness ==
    \E c \in Conns :
        /\ pc[c] = "done"
        /\ hubOp = [op |-> "unregister", conn |-> {c}]
        /\ c \in LiveConns /\ ~closed[c]

\* Connection c's connect hook succeeded on document t.
Joined(c, t) == docID[c] = t /\ pc[c] \in {"read", "unreg", "leave", "done"}

\* Some connection joined t and the read loop of every one that did has exited.
AllLeft(t) ==
    /\ \E c \in Conns : Joined(c, t)
    /\ \A c \in Conns : Joined(c, t) => pc[c] # "read"

\* The registry holds no entry for t and the bus no subscription on its subject.
NoSubscription(t) == ~Exists(subscriptions, t) /\ busSubs[SubjectOf(t)] = 0

\* C13: once every connection that joined t has left its read loop, the registry
\* entry and the backend subscription of t eventually go away (unless a new
\* connection joins t meanwhile or the process has ended, taking both with it).
C13_NoSubscriptionOutlivesConnections ==
    \A t \in Topics : AllLeft(t) ~> (NoSubscription(t) \/ ~AllLeft(t) \/ ~Alive)

\* C13 witness: two connections joined the same document, both are gone and the
\* subscription is gone with them.
C13_Witness ==
    \E t \in Topics :
        /\ Alive
        /\ Cardinality({c \in Conns : Joined(c, t)}) = 2
        /\ \A c \in Conns : Joined(c, t) => pc[c] = "done"
        /\ NoSubscription(t)

\* Connection c's Join(t) succeeded and its disconnect hook has not yet called Leave(t).
Holds(c, t) == docID[c] = t /\ pc[c] \in {"read", "unreg", "leave"}

\* C14: while a connection that joined t has not yet called Leave(t), the registry
\* entry of t and its backend subscription are in place.
C14_OnlyLastLeaverUnsubscribes ==
    \A t \in Topics :
        (\E c \in Conns : Holds(c, t))
        => (Exists(subscriptions, t) /\ busSubs[SubjectOf(t)] > 0)

\* C14 witness: of two connections that joined one document, one has called Leave
\* and the other has not; the subscription is still there.
C14_Witness ==
    \E t \in Topics : \E a \in Conns : \E b \in Conns :
        /\ docID[a] = t /\ pc[a] = "done" /\ wp[a] # "off"
        /\ Holds(b, t)
        /\ busSubs[SubjectOf(t)] > 0

(* ------------------------------------------------------------------ *)
(* Registry error handling                                             *)
(* ------------------------------------------------------------------ *)

\* Caller p's step is the one that makes backend call `token` for its document.
BackendStep(p, token) == hist'[rarg[p]] = Append(hist[rarg[p]], token)

\* C15: the step of Join(T) in which the backend subscribe fails ends the call with an
\* error and changes neither the registry's entries and counts nor the subscriptions.
C15_FailedJoinChangesNothing ==
    [][ \A p \in Callers :
          (rpc[p] = "s_backend" /\ BackendStep(p, "Sx"))
          => /\ rpc'[p] = "idle" /\ rerr'[p]
             /\ ~Exists(subscriptions', rarg[p])
             /\ UNCHANGED <<subscriptions, busSubs>> ]_vars

\* C15 witness: a Join has returned an error while another document keeps its entry.
C15_Witness ==
    \E p \in Callers :
        /\ rpc[p] = "idle" /\ rerr[p]
        /\ ~Exists(subscriptions, rarg[p])
        /\ subscriptions # <<>>

\* C16: the step of Leave(T) in which the backend unsubscribe fails still removes the
\* entry of T, and no backend unsubscribe is ever made again for a subscription that
\* was unsubscribed once: unsubscribe calls never outnumber successful subscribes.
C16_FailedUnsubscribeStillRemoves ==
    [][ /\ \A p \in Callers :
              (rpc[p] = "u_decr" /\ BackendStep(p, "Ux"))
              => (~Exists(subscriptions', rarg[p]) /\ rpc'[p] = "idle")
        /\ \A t \in Topics :
              Count(hist'[t], "U") + Count(hist'[t], "Ux") <= Count(hist'[t], "S") ]_vars

\* C16 witness: after a failed unsubscribe the document was joined and left again.
C16_Witness ==
    \E t \in Topics :
        /\ Count(hist[t], "Ux") = 1 /\ Count(hist[t], "S") = 2
        /\ hist[t][Len(hist[t])] \in {"U", "Ux"}
        /\ ~Exists(subscriptions, t)

\* C17: the Leave(T) whose backend unsubscribe fails returns an error.
C17_FailedUnsubscribeReturnsError ==
    [][ \A p \in Callers :
          (rpc[p] = "u_decr" /\ BackendStep(p, "Ux")) => rerr'[p] ]_vars

\* C17 witness: a Leave whose backend unsubscribe failed has returned.
C17_Witness ==
    \E p \in Callers :
        /\ rpc[p] = "idle"
        /\ hist[rarg[p]] # <<>>
        /\ hist[rarg[p]][Len(hist[rarg[p]])] = "Ux"

\* C18: a Leave(T) that finds no entry for T returns at once without error, makes no
\* backend call and changes no entry and no count.
C18_LeaveOfAbsentTopicIsNoop ==
    [][ \A p \in Callers :
          (rpc[p] = "u_lock" /\ rpc'[p] # "u_lock" /\ rarg[p] \notin DOMAIN subscriptions)
          => /\ rpc'[p] = "idle" /\ ~rerr'[p]
             /\ BackendStep(p, "Lx")
             /\ UNCHANGED <<subscriptions, busSubs>> ]_vars

\* C18 witness: a Leave found no entry for its document while another document has one.
C18_Witness ==
    \E p \in Callers :
        /\ rpc[p] = "idle" /\ ~rerr[p]
        /\ hist[rarg[p]] # <<>>
        /\ hist[rarg[p]][Len(hist[rarg[p]])] = "Lx"
        /\ subscriptions # <<>>

(* ------------------------------------------------------------------ *)
(* Broadcasts and full queues                                          *)
(* ------------------------------------------------------------------ *)

\* A broadcast handles a connection whose queue is full: BroadcastToDocument takes
\* its default branch, or Hub.Run's broadcast case runs with a full queue in the set.
FullQueueStep ==
    \/ \E t \in Topics : BcEvict(t)
    \/ /\ \E c \in LiveConns : ~HasRoom(c)
       /\ HubBroadcast(GlobalMessage(nglobal + 1))

\* C19: BroadcastToDocument and Hub.Run's broadcast case never wait on a queue and
\* always complete, however many queues are full: a broadcast step that finds a
\* full queue leaves the process running, so that Hub.Run gets back to its select.
C19_FullQueueNeverStopsBroadcast == [][FullQueueStep => Alive']_vars

\* C19 witness: a connection was evicted for its full queue while another
\* goroutine ranged over h.connections, and the runtime ended the process.
C19_Witness ==
    /\ crashed = "concurrent map iteration and map write"
    /\ hubOp = IdleHub
    /\ \E c \in LiveConns : ~HasRoom(c)
    /\ \E t \in Topics : cb[t].on

\* The callback of topic t takes a step of BroadcastToDocument(t, ...).
BroadcastToDocumentStep(t) == BcPick(t) \/ BcSend(t) \/ BcEvict(t) \/ BcDone(t)

\* The step leaves connection c's queue, its closed flag and its place in the live
\* set as they were.
Untouched(c) ==
    /\ send'[c] = send[c]
    /\ enq'[c] = enq[c]
    /\ closed'[c] = closed[c]
    /\ (c \in {connections'[k] : k \in DOMAIN connections'}) = (c \in LiveConns)

\* C20: BroadcastToDocument(T, ...) never enqueues onto, evicts or otherwise changes
\* a connection whose document ID differs from T.
C20_OtherTopicsUntouched ==
    [][ \A t \in Topics : BroadcastToDocumentStep(t) =>
          \A c \in Conns : (pc[c] # "new" /\ docID[c] # t) => Untouched(c) ]_vars

\* C20 witness: a connection on one document sits outside the live set with its
\* read loop running and its queue open, right after the callback of another
\* document evicted the connection that shared its client ID.
C20_Witness ==
    \E x \in Conns : \E y \in Conns :
        /\ clientID[x] = clientID[y] /\ docID[x] # docID[y]
        /\ closed[x] /\ ~HasRoom(x)
        /\ pc[y] \in {"onconnect", "read"} /\ ~closed[y] /\ y \notin LiveConns
        /\ hubOp = IdleHub
        /\ cb[docID[x]].on /\ clientID[x] \in cb[docID[x]].start

(* ------------------------------------------------------------------ *)
(* Connection lifecycle                                                *)
(* ------------------------------------------------------------------ *)

\* Connection c has been in the live set and is no longer: HandleWebSocket created
\* it, Hub.Run's register case has run for it, and h.connections does not hold it.
Removed(c) ==
    /\ pc[c] # "new"
    /\ hubOp # [op |-> "register", conn |-> {c}]
    /\ c \notin LiveConns

\* C21: a connection goes unregistered -> registered -> removed: whatever step takes
\* it out of the live set (unregister, eviction, a later connection stored under
\* its client ID) leaves it removed, and a removed connection stays removed.
C21_NoResurrection ==
    [][ \A c \in Conns :
          /\ (c \in LiveConns /\ c \notin {connections'[k] : k \in DOMAIN connections'})
                => Removed(c)'
          /\ Removed(c) => Removed(c)' ]_vars

\* C21 witness: a removed connection whose client ID is a key of h.connections
\* again, held by a later connection.
C21_Witness ==
    \E c \in Conns :
        /\ Removed(c)
        /\ clientID[c] \in DOMAIN connections
        /\ hubOp = IdleHub

\* A step of what follows a transport error on connection x: readPump leaves its
\* loop, sends x on hub.unregister, Hub.Run carries the request out, the hook runs.
ErrorHandlingStep(x) ==
    \/ ReadError(x)
    \/ UnregisterSend(x)
    \/ hubOp = [op |-> "unregister", conn |-> {x}] /\ HubUnregister
    \/ OnDisconnect(x)

\* C22: a transport error on connection X affects only X: no step of its handling
\* changes another connection's place in the live set, its queue or whether its
\* queue is open, and the process (so Hub.Run) keeps running.
C22_ErrorStaysLocal ==
    [][ \A x \in Conns : ErrorHandlingStep(x) =>
          /\ Alive'
          /\ \A c \in Conns \ {x} : Untouched(c) ]_vars

\* C22 witness: X's read loop has ended and its unregister was carried out; the
\* connection that shared X's client ID is out of the live set, its read loop
\* running and its queue open.
C22_Witness ==
    \E x \in Conns : \E y \in Conns \ {x} :
        /\ clientID[x] = clientID[y]
        /\ pc[x] \in {"leave", "done"} /\ closed[x]
        /\ pc[y] = "read" /\ ~closed[y] /\ y \notin LiveConns
        /\ hubOp = IdleHub
        /\ connections = <<>>
        /\ \A t \in Topics : ~cb[t].on

(* ------------------------------------------------------------------ *)
(* Forwarding of bus messages                                          *)
(* ------------------------------------------------------------------ *)

\* The frame BroadcastToDocument enqueues for the message the callback of t holds.
Forwarded(t) == [Type |-> TextMessage, Data |-> cb[t].data]

\* Connection c was in the live set, on document t, when the callback of t began its
\* range, and still is: its client ID was a key then and no other connection has
\* used that ID.
MemberThroughout(c, t) ==
    /\ c \in LiveConns
    /\ docID[c] = t
    /\ clientID[c] \in cb[t].start
    /\ \A o \in Conns \ {c} : pc[o] # "new" => clientID[o] # clientID[c]

\* C23: a bus message that json.Unmarshal rejects is still forwarded: the callback
\* starts BroadcastToDocument without an excluded client, the broadcast ends only
\* when every connection of the document registered throughout has the raw bytes
\* enqueued, and none of this touches the subscription.
C23_UndecodableBroadcastToAll ==
    [][ \A t \in Topics :
          /\ (Deliver(t) /\ ~UnmarshalEvent(Head(busQ[t])).ok) =>
                /\ cb'[t].on /\ cb'[t].exclude = "" /\ cb'[t].data = Head(busQ[t])
                /\ UNCHANGED <<subscriptions, busSubs>>
          /\ (BcDone(t) /\ ~UnmarshalEvent(cb[t].data).ok) =>
                /\ \A c \in Conns : MemberThroughout(c, t) =>
                      \E i \in DOMAIN enq[c] : enq[c][i] = Forwarded(t)
                /\ UNCHANGED <<subscriptions, busSubs>> ]_vars

\* C23 witness: two connections of one document, clients a and b, both hold the same
\* undecodable bytes in their queues; the callback is done and the subscription live.
C23_Witness ==
    \E t \in Topics : \E n \in 1..MaxBus :
        /\ ~cb[t].on
        /\ \E x \in Conns : \E y \in Conns :
              /\ clientID[x] # clientID[y]
              /\ \A c \in {x, y} :
                    /\ docID[c] = t /\ c \in LiveConns
                    /\ \E i \in DOMAIN send[c] :
                          send[c][i] = [Type |-> TextMessage, Data |-> Opaque(n)]
        /\ Exists(subscriptions, t) /\ busSubs[SubjectOf(t)] > 0

(* ------------------------------------------------------------------ *)
(* Global broadcast                                                    *)
(* ------------------------------------------------------------------ *)

\* C24: Hub.Run's broadcast case treats every connection of the live set as
\* BroadcastToDocument treats a selected one: the message goes to the back of a queue
\* that has room, a connection whose queue is full is taken out of the live set and
\* its queue closed; connections outside the live set are left alone. This is said of
\* a broadcast that runs to its end.
C24_GlobalBroadcastPolicy ==
    [][ \A n \in {nglobal + 1} :
          (HubBroadcast(GlobalMessage(n)) /\ nglobal' = n) =>
             \A c \in Conns :
                IF c \notin LiveConns
                THEN send'[c] = send[c] /\ closed'[c] = closed[c]
                ELSE IF Len(send[c]) < SendCap
                THEN /\ send'[c] = Append(send[c], GlobalMessage(n))
                     /\ ~closed'[c]
                     /\ c \in {connections'[k] : k \in DOMAIN connections'}
                ELSE /\ send'[c] = send[c]
                     /\ closed'[c]
                     /\ c \notin {connections'[k] : k \in DOMAIN connections'} ]_vars

\* C24 witness: the last global broadcast found one connection's queue full of
\* earlier broadcasts and evicted it, and reached the other connection.
C24_Witness ==
    \E x \in Conns : \E y \in Conns :
        /\ nglobal = MaxGlobal
        /\ closed[x] /\ x \notin LiveConns /\ pc[x] = "read"
        /\ send[x] = [i \in 1..SendCap |-> GlobalMessage(i)]
        /\ y \in LiveConns /\ ~closed[y]
        /\ send[y] = <<GlobalMessage(MaxGlobal)>>

(* ------------------------------------------------------------------ *)
(* Subject naming                                                      *)
(* ------------------------------------------------------------------ *)

\* C25: for every document ID D an event for D is published on the very subject
\* Join(D) subscribes to, and is received by D's subscription, if there is one,
\* and by no other document's.
C25_SubjectScopesDocument ==
    wire.doc # "" =>
        /\ wire.subject = SubjectOf(wire.doc)
        /\ wire.got = wire.subs \cap {wire.doc}

\* C25 witness: an event was published for a subscribed document and no
\* subscription received it.
C25_Witness ==
    /\ wire.doc \in wire.subs
    /\ wire.subject # SubjectOf(wire.doc)
    /\ wire.got = {}

(* ------------------------------------------------------------------ *)
(* Write loop                                                          *)
(* ------------------------------------------------------------------ *)

\* C26: when a connection's queue has been closed, its write loop ends only after
\* writing, in order, every message that was enqueued and then one close frame; and
\* nothing is written after a close frame.
C26_DrainThenCloseFrame ==
    [][ \A c \in Conns :
          /\ (closed[c] /\ wp[c] = "run" /\ wp'[c] = "done")
                => written'[c] = enq[c] \o <<CloseFrame>>
          /\ (written[c] # <<>> /\ written[c][Len(written[c])] = CloseFrame)
                => written'[c] = written[c] ]_vars

\* C26 witness: readPump closed the transport after its unregister; the write loop
\* found the queue closed and empty and ended without a close frame on the wire.
C26_Witness ==
    \E c \in Conns :
        /\ pc[c] = "done" /\ closed[c] /\ wp[c] = "done"
        /\ enq[c] # <<>> /\ written[c] = enq[c]
        /\ send[c] = <<>>

(* ------------------------------------------------------------------ *)
(* Read loop and hooks                                                 *)
(* ------------------------------------------------------------------ *)

\* C27: an inbound message whose payload does not decode makes HandleMessage return
\* an error and nothing else: no event is handed to a publishing goroutine or to the
\* bus, the read loop is back at its next ReadMessage, and the connection's place in
\* the live set and its queue are as before.
C27_HandlerErrorSkipsMessage ==
    [][ \A c \in Conns : \A data \in Inbound(nin + 1) :
          (ReadMessage(c, data) /\ ~data.json) =>
             /\ UNCHANGED <<pubs, busQ, cb>>
             /\ pc'[c] = "read" /\ ~tclosed'[c]
             /\ UNCHANGED <<connections, hubOp, send, closed, crashed>> ]_vars

\* C27 witness: a registered, joined connection has read an inbound message and no
\* event exists anywhere: none awaits publishing, none is on the bus or in a queue.
C27_Witness ==
    \E c \in Conns :
        /\ nin = MaxInbound
        /\ pc[c] = "read" /\ c \in LiveConns /\ ~closed[c] /\ ~tclosed[c]
        /\ \A o \in Conns \ {c} : pc[o] = "new"
        /\ pubs = {} /\ \A t \in Topics : busQ[t] = <<>> /\ ~cb[t].on
        /\ enq[c] = <<>>
        /\ Alive

\* Positions of a connection whose readPump goroutine has been started.
ReadLoop == {"read", "unreg", "leave", "done"}

\* The step is connection c's handler.OnConnect returning nil: Manager.Subscribe has
\* counted c in on its document.
JoinReturns(c) ==
    /\ pc[c] = "onconnect"
    /\ Exists(subscriptions', docID[c])
    /\ subscriptions'[docID[c]].connectionCount =
          (IF Exists(subscriptions, docID[c])
           THEN subscriptions[docID[c]].connectionCount ELSE 0) + 1

\* C28: the read loop and the write loop of a connection start only at the step on
\* which its connect hook returns with the Join done, neither has done anything
\* before, and an inbound message is handled only by a connection past that step.
C28_HookBeforePumps ==
    [][ \A c \in Conns :
          /\ ((pc[c] \notin ReadLoop /\ pc'[c] \in ReadLoop)
                \/ (wp[c] = "off" /\ wp'[c] # "off")) =>
                /\ JoinReturns(c)
                /\ written[c] = <<>> /\ wp[c] = "off" /\ pc[c] \notin ReadLoop
          /\ \A data \in Inbound(nin + 1) :
                ReadMessage(c, data) => (pc[c] = "read" /\ wp[c] # "off") ]_vars

\* C28 witness: a connection joined its document, its loops run, and the edit it
\* sent afterwards awaits publishing.
C28_Witness ==
    \E c \in Conns :
        /\ pc[c] = "read" /\ wp[c] = "run"
        /\ Exists(subscriptions, docID[c])
        /\ subscriptions[docID[c]].connectionCount = 1
        /\ \E e \in pubs : e.UserID = clientID[c] /\ e.DocumentID = docID[c]

\* C29: a connection calls Manager.Unsubscribe at most once, from the cleanup its
\* read loop runs on exit, and only if its own OnConnect returned nil: the call is
\* the step from the cleanup to the end, the read loop is entered only by a Join
\* that returned, and a connection whose Join failed goes nowhere.
C29_LeaveOnceAfterJoin ==
    [][ \A c \in Conns :
          /\ OnDisconnect(c) => (pc[c] = "leave" /\ pc'[c] = "done")
          /\ pc[c] \in {"done", "failed"} => (pc'[c] = pc[c] /\ ~OnDisconnect(c))
          /\ (pc'[c] = "leave" /\ pc[c] # "leave") => pc[c] = "unreg"
          /\ (pc'[c] = "unreg" /\ pc[c] # "unreg") => pc[c] = "read"
          /\ (pc'[c] = "read" /\ pc[c] # "read") => JoinReturns(c) ]_vars

\* C29 witness: one connection's Join failed and it stays where it is; another
\* joined the same document, left, and the subscription is gone.
C29_Witness ==
    \E f \in Conns : \E c \in Conns :
        /\ pc[f] = "failed" /\ pc[c] = "done"
        /\ docID[f] = docID[c]
        /\ ~Exists(subscriptions, docID[c])
        /\ busSubs[SubjectOf(docID[c])] = 0

(* ------------------------------------------------------------------ *)
(* Queue bound                                                         *)
(* ------------------------------------------------------------------ *)

\* C30: no outbound queue ever holds more than its capacity, whichever of
\* BroadcastToDocument, Hub.Run's broadcast case and SendMessage attempts the
\* enqueue; an attempt on a full queue leaves its length as it is.
C30_QueueBounded == \A c \in Conns : Len(send[c]) <= SendCap

\* C30 witness: an echo connection's queue is full of global broadcasts; the
\* connection has read a message whose echo was dropped; it is live, its queue open.
C30_Witness ==
    \E c \in Conns :
        /\ docID[c] = EchoDoc /\ pc[c] = "read"
        /\ nin = MaxInbound
        /\ Len(send[c]) = SendCap
        /\ \A i \in DOMAIN enq[c] : enq[c][i].Type = BinaryMessage
        /\ c \in LiveConns /\ ~closed[c]
        /\ Alive

(* ------------------------------------------------------------------ *)
(* Disconnects                                                         *)
(* ------------------------------------------------------------------ *)

\* readPump of c has left its loop.
ReadLoopEnded(c) == pc[c] \in {"unreg", "leave", "done"}

\* writePump of c has returned.
WriteLoopEnded(c) == wp[c] = "done"

\* C31: once a connection's write loop has ended (a failed write ends it), its read
\* loop eventually ends and the connection is out of the live set; once its read loop
\* has ended, its outbound queue is eventually closed and its write loop eventually
\* ends. The end of the process ends every loop.
C31_DisconnectStopsBothLoops ==
    \A c \in Conns :
        /\ WriteLoopEnded(c) ~> ((ReadLoopEnded(c) /\ c \notin LiveConns) \/ ~Alive)
        /\ ReadLoopEnded(c) ~> ((closed[c] /\ WriteLoopEnded(c)) \/ ~Alive)

\* C31 witness: a connection's read loop has ended and its cleanup is over, Hub.Run
\* is back in its select with nothing registered, and the connection's queue is
\* open, its write loop waiting on it.
C31_Witness ==
    \E c \in Conns :
        /\ Alive
        /\ pc[c] = "done" /\ hubOp = IdleHub /\ connections = <<>>
        /\ ~closed[c] /\ wp[c] = "run" /\ send[c] = <<>>
        /\ \A o \in Conns : pc[o] \in {"done", "failed"}

(* ------------------------------------------------------------------ *)
(* Echo route                                                          *)
(* ------------------------------------------------------------------ *)

C33_NoDoubleClose == crashed # "close of closed channel"

\* C33 witness: BroadcastToDocument found a connection's queue full; before it closed
\* the queue the connection's read loop ended and Hub.Run's unregister closed it; the
\* callback's close was the second. No other connection has that client ID.
C33_Witness ==
    \E c \in Conns :
        /\ crashed = "close of closed channel"
        /\ closed[c] /\ ~HasRoom(c)
        /\ pc[c] \in {"leave", "done"}
        /\ cb[docID[c]].on /\ clientID[c] \in cb[docID[c]].visited
        /\ hubOp = IdleHub
        /\ \A o \in Conns \ {c} : pc[o] # "new" => clientID[o] # clientID[c]

\* C34: no goroutine ever executes a send on an outbound queue that has been closed:
\* not BroadcastToDocument, not Hub.Run's broadcast case, not SendMessage.
C34_NoSendOnClosed == crashed # "send on closed channel"

\* C34 witness: BroadcastToDocument had picked a connection when that connection's
\* read loop ended and Hub.Run's unregister closed its queue; the callback's send
\* found the channel closed. No other connection has that client ID.
C34_Witness ==
    \E c \in Conns :
        /\ crashed = "send on closed channel"
        /\ cb[docID[c]].on /\ cb[docID[c]].cur = {c} /\ cb[docID[c]].phase = "send"
        /\ closed[c] /\ HasRoom(c) /\ c \notin LiveConns
        /\ pc[c] \in {"leave", "done"}
        /\ hubOp = IdleHub
        /\ \A o \in Conns \ {c} : pc[o] # "new" => clientID[o] # clientID[c]

(* ------------------------------------------------------------------ *)
(* Client IDs shared by connections                                    *)
(* ------------------------------------------------------------------ *)

\* C35: when Hub.Run carries out the unregister of connection c, no other connection
\* leaves the live set and no queue is closed a second time.
C35_UnregisterOnlyOwnEntry ==
    [][ \A c \in Conns :
          (hubOp = [op |-> "unregister", conn |-> {c}] /\ HubUnregister) =>
             /\ \A o \in Conns \ {c} : o \in LiveConns => o \in LiveConns'
             /\ crashed' # "close of closed channel" ]_vars

\* C35 witness: connection x was evicted for its full queue, connection y registered
\* under the same client ID, and x's unregister took y out of the live set and closed
\* x's queue again.
C35_Witness ==
    \E x \in Conns : \E y \in Conns \ {x} :
        /\ clientID[x] = clientID[y]
        /\ crashed = "close of closed channel"
        /\ pc[x] \in {"leave", "done"} /\ closed[x] /\ ~HasRoom(x)
        /\ pc[y] \in {"onconnect", "read"} /\ ~closed[y] /\ y \notin LiveConns
        /\ hubOp = IdleHub
        /\ \A t \in Topics : ~cb[t].on

(* ------------------------------------------------------------------ *)
(* Leaving the live set                                                *)
(* ------------------------------------------------------------------ *)

\* C36: a connection that is in the live set with its transport closed is eventually
\* out of the live set, and so is a connection whose connect hook returned an error
\* (unless the process ends).
C36_RegisteredEventuallyRemoved ==
    \A c \in Conns :
        /\ (tclosed[c] /\ c \in LiveConns) ~> (c \notin LiveConns \/ ~Alive)
        /\ (pc[c] = AfterJoinFailed /\ c \in LiveConns) ~> (c \notin LiveConns \/ ~Alive)

\* C36 witness: a connection whose Join failed is in the live set, with no loop
\* running for it, while every other connection has come and gone.
C36_Witness ==
    \E c \in Conns :
        /\ Alive
        /\ pc[c] = AfterJoinFailed /\ wp[c] = "off" /\ c \in LiveConns
        /\ ~closed[c] /\ ~tclosed[c]
        /\ \A o \in Conns \ {c} : pc[o] = "done" /\ wp[o] = "done"
        /\ hubOp = IdleHub

(* ------------------------------------------------------------------ *)
(* Order of publishing                                                 *)
(* ------------------------------------------------------------------ *)

\* Event e comes from the one connection of its user on its document.
SoleSource(e) ==
    Cardinality({c \in Conns : /\ pc[c] # "new"
                               /\ clientID[c] = e.UserID
                               /\ docID[c] = e.DocumentID}) = 1

\* Event f was built from the same connection's inbound messages as e, from one that
\* was read earlier (the n-th message read carries n).
ReadBefore(f, e) ==
    /\ f.UserID = e.UserID /\ f.DocumentID = e.DocumentID
    /\ f.Payload.Data < e.Payload.Data

\* C37: the events of one connection are published in the order in which its read
\* loop handled the inbound messages: when an event is published, no event built
\* from an earlier message of the same connection still awaits publishing.
C37_PublishInReadOrder ==
    [][ \A e \in pubs : \A ok \in BOOLEAN :
          (Publish(e, ok) /\ SoleSource(e)) =>
             \A f \in pubs : ~ReadBefore(f, e) ]_vars

\* C37 witness: of the two edits one connection sent, the second is on the bus and
\* the first still awaits publishing.
C37_Witness ==
    \E f \in pubs : \E t \in Topics : \E i \in DOMAIN busQ[t] :
        LET r == UnmarshalEvent(busQ[t][i])
        IN /\ r.ok /\ ReadBefore(f, r.event) /\ SoleSource(f)
           /\ f.Payload.Data = 1 /\ r.event.Payload.Data = 2

(* ------------------------------------------------------------------ *)
(* Reference count and connections                                     *)
(* ------------------------------------------------------------------ *)

\* docSub.connectionCount of t, 0 standing for no entry.
StoredCount(t) ==
    IF Exists(subscriptions, t) THEN subscriptions[t].connectionCount ELSE 0

\* C38: whenever the registry lock is free, the stored count of every document equals
\* the number of connections whose Join of it returned nil and whose disconnect
\* hook has not yet called Leave; an entry is never stored with count 0.
C38_CountEqualsHolders ==
    mutex = NoOne =>
        \A t \in Topics :
            /\ StoredCount(t) = Cardinality({c \in Conns : Holds(c, t)})
            /\ Exists(subscriptions, t) => subscriptions[t].connectionCount > 0

\* C38 witness: two connections joined one document, one has left through its
\* disconnect hook, the other has not: the stored count is 1.
C38_Witness ==
    \E t \in Topics : \E a \in Conns : \E b \in Conns \ {a} :
        /\ mutex = NoOne
        /\ docID[a] = t /\ docID[b] = t
        /\ pc[a] = "done" /\ pc[b] = "unreg"
        /\ StoredCount(t) = 1

(* ------------------------------------------------------------------ *)
(* After an eviction                                                   *)
(* ------------------------------------------------------------------ *)

\* Connection c's queue was closed while its read loop runs: only an eviction does
\* that, an unregister comes from a read loop that has ended.
Evicted(c) == closed[c] /\ pc[c] = "read"

\* C39: the eviction step of BroadcastToDocument leaves the registry alone; for an
\* evicted connection there comes a time when its write loop has ended, its transport
\* is closed and its disconnect hook has called Leave; and the hook runs once: after
\* it the connection takes no further step.
C39_EvictedEventuallyLeaves ==
    /\ [][ /\ (\E t \in Topics : BcEvict(t)) => UNCHANGED <<subscriptions, busSubs>>
           /\ \A c \in Conns : pc[c] = "done" => pc'[c] = "done" ]_vars
    /\ \A c \in Conns : Evicted(c) ~> (WriteLoopEnded(c) /\ tclosed[c] /\ pc[c] = "done")

\* C39 witness: a connection was evicted for its full queue, its write loop drained
\* the queue and closed the transport, and a second connection registered under its
\* client ID; its unregister closed its queue a second time and ended the process
\* before the disconnect hook could run.
C39_Witness ==
    \E x \in Conns : \E y \in Conns \ {x} :
        /\ clientID[x] = clientID[y]
        /\ crashed = "close of closed channel"
        /\ pc[x] = "leave" /\ closed[x] /\ wp[x] = "done" /\ tclosed[x]
        /\ Len(written[x]) = SendCap + 1
        /\ Holds(x, docID[x]) /\ StoredCount(docID[x]) > 0

====
